---- MODULE Spec2Model ----
(***************************************************************************)
(* A model of the SoaringSpot IGC downloader: the URL classifier and       *)
(* generator (src/url_utils.rs), the HTML extractors (src/parser.rs) and   *)
(* the crawl-target selection (src/main.rs).                               *)
(*                                                                         *)
(* A Rust string is a sequence of one-character strings, so that format!,  *)
(* starts_with, contains, split_once, strip_prefix, parse::<u32>, strftime *)
(* and strptime are computed character by character.                       *)
(***************************************************************************)
EXTENDS Integers, Sequences, FiniteSets, TLC

VARIABLES
    pc,      \* position of the run
    mode,    \* which input the run started from
    d,       \* the DailyUrlInfo given to to_daily_url (record runs)
    orig,    \* the URL text the run started from (text runs)
    text,    \* the current URL text
    url,     \* the parsed Url
    info,    \* the Result of extract_url_info
    first,   \* the Result of the first extract_url_info of the run
    gen,     \* the strings to_daily_url returned, in order
    html,    \* the page given to an extractor: its elements in document order
    daily_results,    \* what parse_daily_results returned
    igc_files,        \* what parse_igc_files returned
    include_practice, \* the --include-practice flag
    practice,         \* the records is_practice_day holds of
    response,         \* how the server answers the index-page request
    daily_urls,       \* the Result of daily_urls_for_url
    requests,         \* the URLs requested, in order
    igc_date,    \* the Date given to date_to_igc_filename_prefix
    igc_prefix,  \* what date_to_igc_filename_prefix returned
    day,         \* main: the position in the list of days (from 1)
    flight,      \* main: the position in the day's list of flights (from 1)
    collected,   \* main: the (day, flights) pairs collected by the first loop
    fs,          \* the files of the output directory: <<path, content>>
    dirs,        \* the directories create_dir_all has made
    trace,       \* what main has done, in order
    progress,    \* the position of the download progress bar
    outcome      \* main's Result: "running", "ok" or "err"

urlVars == <<mode, d, orig, text, url, info, first, gen>>

pageVars ==
    <<html, daily_results, igc_files, include_practice, practice, response,
      daily_urls, requests>>

runVars ==
    <<igc_date, igc_prefix, day, flight, collected, fs, dirs, trace, progress,
      outcome>>

vars == <<pc, urlVars, pageVars, runVars>>

\* main has not run and no filename prefix has been asked for
RunIdle ==
    /\ igc_date = [year |-> 0, month |-> 0, day |-> 0]
    /\ igc_prefix = <<>>
    /\ day = 0
    /\ flight = 0
    /\ collected = <<>>
    /\ fs = {}
    /\ dirs = {}
    /\ trace = <<>>
    /\ progress = 0
    /\ outcome = "running"

\* ------------------------------------------------------------------------
\* Bounds of the model

\* Longest path (in segments) of an input URL.
MaxSegs == 7
\* Largest task number of an input DailyUrlInfo.
MaxTask == 11
\* How many times one run classifies and regenerates.
MaxRounds == 2

\* ------------------------------------------------------------------------
\* Program constants

\* u32::MAX in decimal, the width of DailyUrlInfo::task_number
U32MaxDigits == <<"4","2","9","4","9","6","7","2","9","5">>

\* ------------------------------------------------------------------------
\* Character strings

Digits == <<"0","1","2","3","4","5","6","7","8","9">>

IsDigit(c) == \E i \in 1..10 : Digits[i] = c

DigitVal(c) == (CHOOSE i \in 1..10 : Digits[i] = c) - 1

AllDigits(s) == \A i \in 1..Len(s) : IsDigit(s[i])

Tail2(s, n) == SubSeq(s, n + 1, Len(s))

\* str::starts_with
StartsWith(s, p) == Len(p) <= Len(s) /\ SubSeq(s, 1, Len(p)) = p

\* the positions at which p occurs in s
Occurrences(s, p) ==
    {i \in 1..(Len(s) - Len(p) + 1) : SubSeq(s, i, i + Len(p) - 1) = p}

\* str::contains
Contains(s, p) == Occurrences(s, p) # {}

SetMin(S) == CHOOSE x \in S : \A y \in S : x <= y

\* str::find
Find(s, p) == SetMin(Occurrences(s, p))

\* str::split_once: splits at the first occurrence of p
SplitOnce(s, p) ==
    IF Contains(s, p)
    THEN [some |-> TRUE,
          left |-> SubSeq(s, 1, Find(s, p) - 1),
          right |-> Tail2(s, Find(s, p) + Len(p) - 1)]
    ELSE [some |-> FALSE, left |-> <<>>, right |-> <<>>]

\* str::strip_prefix
StripPrefix(s, p) ==
    IF StartsWith(s, p)
    THEN [some |-> TRUE, rest |-> Tail2(s, Len(p))]
    ELSE [some |-> FALSE, rest |-> <<>>]

RECURSIVE DecimalValue(_)
DecimalValue(s) ==
    IF s = <<>> THEN 0
    ELSE 10 * DecimalValue(SubSeq(s, 1, Len(s) - 1)) + DigitVal(s[Len(s)])

RECURSIVE StripZeros(_)
StripZeros(s) == IF Len(s) > 1 /\ s[1] = "0" THEN StripZeros(Tail(s)) ELSE s

\* a > b for digit strings of one length
DigitsGreater(a, b) ==
    \E i \in 1..Len(a) :
        /\ DigitVal(a[i]) > DigitVal(b[i])
        /\ \A j \in 1..(i - 1) : a[j] = b[j]

\* whether a digit string exceeds u32::MAX (PosOverflow)
OverflowsU32(s) ==
    LET t == StripZeros(s)
    IN  \/ Len(t) > Len(U32MaxDigits)
        \/ Len(t) = Len(U32MaxDigits) /\ DigitsGreater(t, U32MaxDigits)

\* str::parse::<u32>: an optional leading "+", then one or more digits, the
\* value at most u32::MAX
ParseU32(s) ==
    LET body == IF Len(s) > 0 /\ s[1] = "+" THEN Tail(s) ELSE s
    IN  IF body = <<>> \/ ~AllDigits(body) THEN [ok |-> FALSE, val |-> 0]
        ELSE IF OverflowsU32(body) THEN [ok |-> FALSE, val |-> 0]
        ELSE [ok |-> TRUE, val |-> DecimalValue(body)]

RECURSIVE FormatNat(_)
\* Display of an unsigned integer: decimal, no padding
FormatNat(n) ==
    IF n < 10 THEN <<Digits[n + 1]>>
    ELSE FormatNat(n \div 10) \o <<Digits[(n % 10) + 1]>>

RECURSIVE ZeroPad(_, _)
\* zero padding to a width, as strftime's %Y (4), %m and %d (2) do
ZeroPad(s, width) == IF Len(s) >= width THEN s ELSE ZeroPad(<<"0">> \o s, width)

\* ------------------------------------------------------------------------
\* jiff::civil::Date

IsLeap(y) == (y % 4 = 0 /\ y % 100 # 0) \/ y % 400 = 0

DaysInMonth(y, m) ==
    IF m = 2 THEN (IF IsLeap(y) THEN 29 ELSE 28)
    ELSE IF m \in {4, 6, 9, 11} THEN 30 ELSE 31

ValidDate(y, m, dd) ==
    /\ y \in 0..9999
    /\ m \in 1..12
    /\ dd \in 1..DaysInMonth(y, m)

\* mutant of Strftime: the day and the month in the other order ("%Y-%d-%m")
Strftime_DayMonth(date) ==
    ZeroPad(FormatNat(date.year), 4) \o <<"-">>
        \o ZeroPad(FormatNat(date.day), 2) \o <<"-">>
        \o ZeroPad(FormatNat(date.month), 2)

\* Date::strftime("%Y-%m-%d")
Strftime(date) ==
    ZeroPad(FormatNat(date.year), 4) \o <<"-">>
        \o ZeroPad(FormatNat(date.month), 2) \o <<"-">>
        \o ZeroPad(FormatNat(date.day), 2)

\* the number of leading digits of s, at most n: what a strptime numeric
\* directive of width n consumes
LeadingDigits(s, n) ==
    Cardinality({k \in 1..n : k <= Len(s) /\ AllDigits(SubSeq(s, 1, k))})

NoDate == [year |-> 0, month |-> 0, day |-> 0]

\* Date::strptime("%Y-%m-%d", s): %Y takes one to four digits, %m and %d one
\* or two, the literals must match, the whole input must be consumed and the
\* fields must name a calendar date
Strptime(s) ==
    LET ny == LeadingDigits(s, 4)
        s1 == Tail2(s, ny)
        s2 == IF StartsWith(s1, <<"-">>) THEN Tail(s1) ELSE <<>>
        nm == LeadingDigits(s2, 2)
        s3 == Tail2(s2, nm)
        s4 == IF StartsWith(s3, <<"-">>) THEN Tail(s3) ELSE <<>>
        nd == LeadingDigits(s4, 2)
        y  == DecimalValue(SubSeq(s, 1, ny))
        m  == DecimalValue(SubSeq(s2, 1, nm))
        dd == DecimalValue(SubSeq(s4, 1, nd))
    IN  IF /\ ny >= 1 /\ StartsWith(s1, <<"-">>)
           /\ nm >= 1 /\ StartsWith(s3, <<"-">>)
           /\ nd >= 1 /\ Len(s4) = nd
           /\ ValidDate(y, m, dd)
        THEN [ok |-> TRUE, date |-> [year |-> y, month |-> m, day |-> dd]]
        ELSE [ok |-> FALSE, date |-> NoDate]

\* ------------------------------------------------------------------------
\* url::Url, for the URLs the model feeds it: scheme://authority/path with an
\* optional ?query or #fragment, over an alphabet without ".", "%" and "\"
\* in the path (no dot segment or percent-encoding rule of the url crate is
\* exercised)

NoUrl == [ok |-> FALSE, scheme |-> <<>>, host |-> <<>>, segs |-> <<>>]

\* the length of the longest prefix of s holding none of the characters stop
PrefixLen(s, stop) ==
    IF \E i \in 1..Len(s) : s[i] \in stop
    THEN SetMin({i \in 1..Len(s) : s[i] \in stop}) - 1
    ELSE Len(s)

RECURSIVE SplitSlash(_)
\* str::split('/')
SplitSlash(s) ==
    LET n == PrefixLen(s, {"/"})
    IN  IF n = Len(s) THEN <<s>>
        ELSE <<SubSeq(s, 1, n)>> \o SplitSlash(Tail2(s, n + 1))

\* Url::parse, then Url::scheme, Url::host_str and Url::path_segments: the
\* authority ends at the first "/", "?" or "#", a port must be digits, the
\* host must not be empty, the path ends at the first "?" or "#", and an
\* empty path is "/"
UrlParse(s) ==
    LET sep  == SplitOnce(s, <<":","/","/">>)
        rest == sep.right
        na   == PrefixLen(rest, {"/", "?", "#"})
        auth == SubSeq(rest, 1, na)
        hp   == SplitOnce(auth, <<":">>)
        host == IF hp.some THEN hp.left ELSE auth
        tl   == Tail2(rest, na)
        path == SubSeq(tl, 1, PrefixLen(tl, {"?", "#"}))
    IN  IF ~sep.some \/ sep.left = <<>> THEN NoUrl
        ELSE IF hp.some /\ ~AllDigits(hp.right) THEN NoUrl
        ELSE IF host = <<>> THEN NoUrl
        ELSE [ok |-> TRUE, scheme |-> sep.left, host |-> host,
              segs |-> IF path = <<>> THEN << <<>> >> ELSE SplitSlash(Tail(path))]

\* ------------------------------------------------------------------------
\* src/url_utils.rs

Https == <<"h","t","t","p","s">>
Http == <<"h","t","t","p">>
WwwHost == <<"w","w","w",".","s","o","a","r","i","n","g","s","p","o","t",".","c","o","m">>
BareHost == <<"s","o","a","r","i","n","g","s","p","o","t",".","c","o","m">>
Results == <<"r","e","s","u","l","t","s">>
TaskPrefix == <<"t","a","s","k","-">>
OnSep == <<"-","o","n","-">>

\* mutant of DailyUrlHead: the bare host
DailyUrlHead_Bare == <<"h","t","t","p","s",":","/","/","s","o","a","r","i","n","g","s","p","o","t",".","c","o","m","/","e","n","_","g","b","/">>

\* the literal pieces of to_daily_url's format string
DailyUrlHead == <<"h","t","t","p","s",":","/","/","w","w","w",".","s","o","a","r","i","n","g","s","p","o","t",".","c","o","m","/","e","n","_","g","b","/">>
DailyUrlResults == <<"/","r","e","s","u","l","t","s","/">>
DailyUrlTask == <<"/","t","a","s","k","-">>
DailyUrlDaily == <<"/","d","a","i","l","y">>

\* mutant of to_daily_url: the trailing /daily left out
to_daily_url_NoDaily(r) ==
    DailyUrlHead \o r.competition \o DailyUrlResults \o r.class
        \o DailyUrlTask \o FormatNat(r.task_number) \o OnSep
        \o Strftime(r.date)

\* DailyUrlInfo::to_daily_url
to_daily_url(r) ==
    DailyUrlHead \o r.competition \o DailyUrlResults \o r.class
        \o DailyUrlTask \o FormatNat(r.task_number) \o OnSep
        \o Strftime(r.date) \o DailyUrlDaily

\* Err(message): the messages are those of the source; the two formatted
\* ones carry the offending substring
Err(msg, arg) == [ok |-> FALSE, err |-> msg, arg |-> arg]

\* UrlInfo::Competition
Competition(c) == [ok |-> TRUE, kind |-> "Competition", competition |-> c]

\* UrlInfo::Class
Class(c, k) == [ok |-> TRUE, kind |-> "Class", competition |-> c, class |-> k]

\* UrlInfo::Daily(DailyUrlInfo)
Daily(c, k, dt, n) ==
    [ok |-> TRUE, kind |-> "Daily", competition |-> c, class |-> k,
     date |-> dt, task_number |-> n]

\* the DailyUrlInfo inside a Daily result
DailyOf(i) ==
    [competition |-> i.competition, class |-> i.class, date |-> i.date,
     task_number |-> i.task_number]

\* mutant of ExtractDaily: the date is parsed before the task number
ExtractDaily_DateFirst(competition, class, task) ==
    LET sp   == SplitOnce(task, OnSep)
        pre  == StripPrefix(sp.left, TaskPrefix)
        num  == ParseU32(pre.rest)
        date == Strptime(sp.right)
    IN  IF ~StartsWith(task, TaskPrefix) \/ ~Contains(task, OnSep)
        THEN Err("Unsupported URL format", <<>>)
        ELSE IF ~sp.some
        THEN Err("Could not extract date from task segment", <<>>)
        ELSE IF ~pre.some
        THEN Err("Task segment must start with 'task-'", <<>>)
        ELSE IF ~date.ok
        THEN Err("Failed to parse date", sp.right)
        ELSE IF ~num.ok
        THEN Err("Failed to parse task number", pre.rest)
        ELSE Daily(competition, class, date.date, num.val)

\* the part of extract_url_info that reads the task segment
ExtractDaily(competition, class, task) ==
    LET sp   == SplitOnce(task, OnSep)
        pre  == StripPrefix(sp.left, TaskPrefix)
        num  == ParseU32(pre.rest)
        date == Strptime(sp.right)
    IN  IF ~StartsWith(task, TaskPrefix) \/ ~Contains(task, OnSep)
        THEN Err("Unsupported URL format", <<>>)
        ELSE IF ~sp.some
        THEN Err("Could not extract date from task segment", <<>>)
        ELSE IF ~pre.some
        THEN Err("Task segment must start with 'task-'", <<>>)
        ELSE IF ~num.ok
        THEN Err("Failed to parse task number", pre.rest)
        ELSE IF ~date.ok
        THEN Err("Failed to parse date", sp.right)
        ELSE Daily(competition, class, date.date, num.val)

\* mutant of extract_url_info: a path that ends at "results" is refused
extract_url_info_NoBareResults(u) ==
    LET segs == u.segs
    IN  IF u.scheme # Https /\ u.scheme # Http
        THEN Err("URL must use HTTP or HTTPS scheme", <<>>)
        ELSE IF u.host # WwwHost /\ u.host # BareHost
        THEN Err("URL must be from soaringspot.com or www.soaringspot.com", <<>>)
        ELSE IF Len(segs) < 1
        THEN Err("Invalid URL format - missing path segments", <<>>)
        ELSE IF Len(segs) < 2
        THEN Err("URL must contain competition name", <<>>)
        ELSE IF Len(segs) < 3
        THEN Competition(segs[2])
        ELSE IF segs[3] # Results \/ Len(segs) < 4
        THEN Err("Unsupported URL format", <<>>)
        ELSE IF Len(segs) < 5
        THEN Class(segs[2], segs[4])
        ELSE ExtractDaily(segs[2], segs[4], segs[5])

\* extract_url_info. Url::host_str and Url::path_segments are Some for every
\* URL that passes the scheme check (http and https URLs have a host and a
\* path), so the errors of lines 40 and 45 have no case here.
extract_url_info(u) ==
    LET segs == u.segs
    IN  IF u.scheme # Https /\ u.scheme # Http
        THEN Err("URL must use HTTP or HTTPS scheme", <<>>)
        ELSE IF u.host # WwwHost /\ u.host # BareHost
        THEN Err("URL must be from soaringspot.com or www.soaringspot.com", <<>>)
        ELSE IF Len(segs) < 1
        THEN Err("Invalid URL format - missing path segments", <<>>)
        ELSE IF Len(segs) < 2
        THEN Err("URL must contain competition name", <<>>)
        ELSE IF Len(segs) < 3
        THEN Competition(segs[2])
        ELSE IF segs[3] # Results
        THEN Err("Unsupported URL format", <<>>)
        ELSE IF Len(segs) < 4
        THEN Competition(segs[2])
        ELSE IF Len(segs) < 5
        THEN Class(segs[2], segs[4])
        ELSE ExtractDaily(segs[2], segs[4], segs[5])

\* ------------------------------------------------------------------------
\* Inputs of the URL runs

Ftp == <<"f","t","p">>
OtherHost == <<"w","w","w",".","g","o","o","g","l","e",".","c","o","m">>

\* scheme and host of an input URL
Origins ==
    {<<Https, WwwHost>>, <<Http, WwwHost>>, <<Https, BareHost>>,
     <<Http, BareHost>>, <<Ftp, WwwHost>>, <<Https, OtherHost>>,
     <<Ftp, OtherHost>>}

Locales == {<<"e","n","_","g","b">>, <<"d","e">>}

\* task segments: well formed, and each way of being malformed
TaskSegs ==
    {<<"t","a","s","k","-","1","-","o","n","-","2","0","2","5","-","0","6","-","1","9">>, <<"t","a","s","k","-","1","0","-","o","n","-","2","0","2","4","-","0","2","-","2","9">>,
     <<"t","a","s","k","-","0","5","-","o","n","-","2","0","2","5","-","0","6","-","1","9">>, <<"t","a","s","k","-","0","-","o","n","-","2","0","2","5","-","0","6","-","1","9">>,
     <<"t","a","s","k","-","+","5","-","o","n","-","2","0","2","5","-","0","6","-","1","9">>, <<"t","a","s","k","-","4","-","o","n","-","2","0","2","5","-","6","-","9">>,
     <<"t","a","s","k","-","3","-","o","n","-","2","0","2","5","-","0","2","-","3","0">>, <<"t","a","s","k","-","1","-","o","n","-","i","n","v","a","l","i","d","-","d","a","t","e">>,
     <<"t","a","s","k","-","x","-","o","n","-","i","n","v","a","l","i","d","-","d","a","t","e">>, <<"t","a","s","k","-","-","o","n","-","2","0","2","5","-","0","6","-","1","9">>,
     <<"t","a","s","k","-","o","n","-","2","0","2","5","-","0","6","-","1","9">>, <<"t","a","s","k","-","1","-","2","0","2","5","-","0","6","-","1","9">>,
     <<"d","a","y","-","1","-","o","n","-","2","0","2","5","-","0","6","-","1","9">>, <<"i","n","v","a","l","i","d","-","f","o","r","m","a","t">>, <<>>,
     <<"t","a","s","k","-","4","2","9","4","9","6","7","2","9","6","-","o","n","-","2","0","2","5","-","0","6","-","1","9">>}

\* the segments an input URL may hold at position i (from 1)
SegPool(i) ==
    CASE i = 1 -> Locales
      [] i = 2 -> {<<"t","e","s","t">>, <<>>}
      [] i = 3 -> {Results, <<"i","n","v","a","l","i","d">>}
      [] i = 4 -> {<<"c","l","u","b">>, <<>>}
      [] i = 5 -> TaskSegs
      [] i = 6 -> {<<"d","a","i","l","y">>, <<"f","o","o">>}
      [] OTHER -> {<<"x">>}

RECURSIVE PathsOfLen(_)
PathsOfLen(n) ==
    IF n = 0 THEN {<<>>}
    ELSE {Append(p, s) : p \in PathsOfLen(n - 1), s \in SegPool(n)}

\* the paths of at most MaxSegs segments
Paths == UNION {PathsOfLen(n) : n \in 0..MaxSegs}

RECURSIVE JoinPath(_)
\* "/" before each segment
JoinPath(p) == IF p = <<>> THEN <<>> ELSE <<"/">> \o Head(p) \o JoinPath(Tail(p))

UrlText(o, p) == o[1] \o <<":","/","/">> \o o[2] \o JoinPath(p)

Slugs == {<<"t","e","s","t">>, <<"w","g","c","-","2","0","2","5">>, <<"c","l","u","b">>}

Years == {987, 2024, 2025}
Months == {2, 6, 12}
Days == {1, 9, 10, 28, 29, 30, 31}

Dates ==
    {[year |-> y, month |-> m, day |-> dd] :
        y \in Years, m \in Months, dd \in Days}

\* the valid Daily records: non-empty slugs, task_number >= 1, a calendar date
DailyRecords ==
    {[competition |-> c, class |-> k, date |-> dt, task_number |-> n] :
        c \in Slugs \ {<<"c","l","u","b">>}, k \in Slugs \ {<<"t","e","s","t">>},
        dt \in {x \in Dates : ValidDate(x.year, x.month, x.day)},
        n \in 1..MaxTask}

NoRecord ==
    [competition |-> <<>>, class |-> <<>>, date |-> NoDate, task_number |-> 0]

NoInfo == [ok |-> FALSE, err |-> "", arg |-> <<>>]

\* ------------------------------------------------------------------------
\* The URL runs: a DailyUrlInfo is rendered, or a URL text is given; the text
\* is parsed and classified; a Daily result is rendered again.

InitRecord ==
    /\ mode = "record"
    /\ pc = "record"
    /\ d \in DailyRecords
    /\ orig = <<>>
    /\ text = <<>>

InitText ==
    /\ mode = "text"
    /\ pc = "text"
    /\ d = NoRecord
    /\ \E o \in Origins, p \in Paths : orig = UrlText(o, p)
    /\ text = orig

NoResult == [ok |-> FALSE, list |-> <<>>, err |-> ""]

\* the extractors and the crawl-target selection have not run
PageIdle ==
    /\ html = <<>>
    /\ daily_results = <<>>
    /\ igc_files = <<>>
    /\ include_practice = FALSE
    /\ practice = {}
    /\ response = "none"
    /\ daily_urls = NoResult
    /\ requests = <<>>

Init ==
    /\ InitRecord \/ InitText
    /\ url = NoUrl
    /\ info = NoInfo
    /\ first = NoInfo
    /\ gen = <<>>
    /\ PageIdle
    /\ RunIdle

\* DailyUrlInfo::to_daily_url on the given record
Generate ==
    /\ pc = "record"
    /\ text' = to_daily_url(d)
    /\ gen' = Append(gen, text')
    /\ pc' = "text"
    /\ UNCHANGED <<mode, d, orig, url, info, first>>
    /\ UNCHANGED pageVars
    /\ UNCHANGED runVars

\* Url::parse
ParseUrl ==
    /\ pc = "text"
    /\ url' = UrlParse(text)
    /\ pc' = IF url'.ok THEN "url" ELSE "unparsed"
    /\ UNCHANGED <<mode, d, orig, text, info, first, gen>>
    /\ UNCHANGED pageVars
    /\ UNCHANGED runVars

\* extract_url_info
Classify ==
    /\ pc = "url"
    /\ info' = extract_url_info(url)
    /\ first' = IF first = NoInfo THEN info' ELSE first
    /\ pc' = "classified"
    /\ UNCHANGED <<mode, d, orig, text, url, gen>>
    /\ UNCHANGED pageVars
    /\ UNCHANGED runVars

\* DailyUrlInfo::to_daily_url on a Daily result
Regenerate ==
    /\ pc = "classified"
    /\ info.ok /\ info.kind = "Daily"
    /\ Len(gen) < MaxRounds
    /\ text' = to_daily_url(DailyOf(info))
    /\ gen' = Append(gen, text')
    /\ pc' = "text"
    /\ UNCHANGED <<mode, d, orig, url, info, first>>
    /\ UNCHANGED pageVars
    /\ UNCHANGED runVars

Next == Generate \/ ParseUrl \/ Classify \/ Regenerate

Spec == Init /\ [][Next]_vars

\* ------------------------------------------------------------------------
\* Properties of the URL runs

\* the URL is one extract_url_info accepts the scheme and host of
Accepted(u) ==
    /\ u.scheme \in {<<"h","t","t","p","s">>, <<"h","t","t","p">>}
    /\ u.host \in {<<"w","w","w",".","s","o","a","r","i","n","g","s","p","o","t",".","c","o","m">>, <<"s","o","a","r","i","n","g","s","p","o","t",".","c","o","m">>}

\* s has the shape dddd-dd-dd
DateShape(s) ==
    /\ Len(s) = 10
    /\ s[5] = "-" /\ s[8] = "-"
    /\ \A i \in {1, 2, 3, 4, 6, 7, 9, 10} : IsDigit(s[i])

\* the digits of a segment task-{digits}-on-{rest}: the digits after "task-"
TaskDigits(seg) == SubSeq(seg, 6, 5 + LeadingDigits(Tail2(seg, 5), Len(seg)))

\* what follows task-{digits}-on- in the segment
TaskDate(seg) == Tail2(seg, 5 + Len(TaskDigits(seg)) + 4)

\* seg is task-{digits}-on-{YYYY-MM-DD}, one digit or more
TaskShape(seg) ==
    /\ StartsWith(seg, <<"t","a","s","k","-">>)
    /\ Len(TaskDigits(seg)) >= 1
    /\ StartsWith(Tail2(seg, 5 + Len(TaskDigits(seg))), <<"-","o","n","-">>)
    /\ DateShape(TaskDate(seg))

\* the date a dddd-dd-dd string names
ShapeDate(s) ==
    [year |-> DecimalValue(SubSeq(s, 1, 4)),
     month |-> DecimalValue(SubSeq(s, 6, 7)),
     day |-> DecimalValue(SubSeq(s, 9, 10))]

\* seg is a well-formed task segment: the shape, a u32 and a calendar date
WellFormedTask(seg) ==
    /\ TaskShape(seg)
    /\ ~OverflowsU32(TaskDigits(seg))
    /\ ValidDate(ShapeDate(TaskDate(seg)).year, ShapeDate(TaskDate(seg)).month,
                 ShapeDate(TaskDate(seg)).day)

\* the path of a URL text after https://www.soaringspot.com/
CanonicalTail(s) == SplitSlash(Tail2(s, Len(<<"h","t","t","p","s",":","/","/","w","w","w",".","s","o","a","r","i","n","g","s","p","o","t",".","c","o","m","/">>)))

\* s is in canonical form:
\* https://www.soaringspot.com/en_gb/{competition}/results/{class}/task-{digits}-on-{YYYY-MM-DD}/daily
CanonicalForm(s) ==
    /\ StartsWith(s, <<"h","t","t","p","s",":","/","/","w","w","w",".","s","o","a","r","i","n","g","s","p","o","t",".","c","o","m","/">>)
    /\ \A i \in 1..Len(s) : s[i] \notin {"?", "#"}
    /\ Len(CanonicalTail(s)) = 6
    /\ CanonicalTail(s)[1] = <<"e","n","_","g","b">>
    /\ CanonicalTail(s)[3] = <<"r","e","s","u","l","t","s">>
    /\ TaskShape(CanonicalTail(s)[5])
    /\ CanonicalTail(s)[6] = <<"d","a","i","l","y">>

\* the task digits are the decimal rendering of a number: no leading zero
PlainDigits(s) == Len(TaskDigits(CanonicalTail(s)[5])) = 1 \/ TaskDigits(CanonicalTail(s)[5])[1] # "0"

\* C1: a valid Daily record, rendered by to_daily_url, parsed and classified,
\* comes back as the Daily variant with the same competition, class, date and
\* task_number (and the rendered text always parses).
C1_RoundTrip ==
    mode = "record" =>
        /\ pc # "unparsed"
        /\ (pc = "classified" /\ Len(gen) = 1) =>
               info = Daily(d.competition, d.class, d.date, d.task_number)

\* a record with a two-digit task number and a three-digit year went around
C1_Witness ==
    /\ mode = "record" /\ pc = "classified" /\ Len(gen) = 1
    /\ d.task_number >= 10 /\ d.date.year < 1000 /\ d.date.day > 12
    /\ info.ok

\* C2 as claimed: every canonical URL text that classifies as Daily is
\* rendered back byte-identical by to_daily_url.
C2_LeftInverse_Claimed ==
    (mode = "text" /\ first.ok /\ first.kind = "Daily" /\ CanonicalForm(orig)
        /\ Len(gen) >= 1) => gen[1] = orig

\* C2 amended: every canonical URL text that classifies as Daily and whose
\* task digits have no leading zero is rendered back byte-identical.
C2_LeftInverse ==
    (mode = "text" /\ first.ok /\ first.kind = "Daily" /\ CanonicalForm(orig)
        /\ PlainDigits(orig) /\ Len(gen) >= 1) => gen[1] = orig

\* a canonical text with plain digits was classified and rendered back
C2_Witness ==
    /\ mode = "text" /\ first.ok /\ first.kind = "Daily"
    /\ CanonicalForm(orig) /\ PlainDigits(orig)
    /\ Len(gen) >= 1 /\ gen[1] = orig

\* C3: for an accepted scheme and host the variant follows the path's shape:
\* [locale, competition] and [locale, competition, "results"] give Competition,
\* [locale, competition, "results", class] gives Class, and a well-formed
\* task segment at position 4 gives Daily with the segment's number and date;
\* the slugs are taken verbatim, whatever their value.
C3_ShapeMapping ==
    (pc = "classified" /\ Accepted(url)) =>
        LET segs == url.segs
        IN  /\ Len(segs) = 2 => info = Competition(segs[2])
            /\ (Len(segs) = 3 /\ segs[3] = <<"r","e","s","u","l","t","s">>) => info = Competition(segs[2])
            /\ (Len(segs) = 4 /\ segs[3] = <<"r","e","s","u","l","t","s">>) => info = Class(segs[2], segs[4])
            /\ (Len(segs) >= 5 /\ segs[3] = <<"r","e","s","u","l","t","s">> /\ WellFormedTask(segs[5])) =>
                   info = Daily(segs[2], segs[4], ShapeDate(TaskDate(segs[5])),
                                DecimalValue(TaskDigits(segs[5])))

\* a Class result with an empty class slug, taken from a trailing slash
C3_Witness ==
    /\ pc = "classified" /\ Accepted(url)
    /\ Len(url.segs) = 4 /\ url.segs[4] = <<>>
    /\ info.ok /\ info.kind = "Class"

\* C4 as claimed: with segments 0..4 a valid Daily path, a segment 5 other
\* than "daily" makes the classifier fail with "Unsupported URL format".
C4_StrictTrailing_Claimed ==
    (pc = "classified" /\ Accepted(url) /\ Len(url.segs) >= 6
        /\ url.segs[3] = <<"r","e","s","u","l","t","s">> /\ WellFormedTask(url.segs[5])
        /\ url.segs[6] # <<"d","a","i","l","y">>) =>
            (~info.ok /\ info.err = "Unsupported URL format")

\* the error kind of each message of extract_url_info
KindOf(msg) ==
    CASE msg = "URL must use HTTP or HTTPS scheme" -> "InvalidScheme"
      [] msg = "URL must be from soaringspot.com or www.soaringspot.com" -> "InvalidHost"
      [] msg = "Invalid URL format - missing path segments" -> "MissingPathSegments"
      [] msg = "URL must contain competition name" -> "MissingCompetitionSegment"
      [] msg = "Unsupported URL format" -> "UnsupportedUrlShape"
      [] msg = "Task segment must start with 'task-'" -> "MalformedTaskSegment"
      [] msg = "Failed to parse task number" -> "InvalidTaskNumber"
      [] msg = "Failed to parse date" -> "InvalidDate"
      [] OTHER -> "Other"

\* the task segment lacks the prefix task- or the separator -on-
LacksTaskParts(seg) == ~StartsWith(seg, <<"t","a","s","k","-">>) \/ ~Contains(seg, <<"-","o","n","-">>)

\* the first -on- of the segment overlaps the prefix: the segment starts task-on-
PrefixOverlap(seg) == StartsWith(seg, <<"t","a","s","k","-","o","n","-">>)

\* the text between task- and the first -on- of a segment that has both
NumberText(seg) == SubSeq(seg, 6, Find(seg, <<"-","o","n","-">>) - 1)

\* the text after the first -on-
DateText(seg) == Tail2(seg, Find(seg, <<"-","o","n","-">>) + 3)

\* the first violated check of the claimed order, by kind; "None" when no
\* check is violated. malformed is the kind of a task segment that lacks
\* task- or -on-.
FirstViolation(u, malformed) ==
    LET segs == u.segs
    IN  IF u.scheme \notin {<<"h","t","t","p","s">>, <<"h","t","t","p">>} THEN "InvalidScheme"
        ELSE IF u.host \notin {<<"w","w","w",".","s","o","a","r","i","n","g","s","p","o","t",".","c","o","m">>, <<"s","o","a","r","i","n","g","s","p","o","t",".","c","o","m">>}
        THEN "InvalidHost"
        ELSE IF Len(segs) = 0 THEN "MissingPathSegments"
        ELSE IF Len(segs) = 1 THEN "MissingCompetitionSegment"
        ELSE IF Len(segs) >= 3 /\ segs[3] # <<"r","e","s","u","l","t","s">> THEN "UnsupportedUrlShape"
        ELSE IF Len(segs) < 5 THEN "None"
        ELSE IF LacksTaskParts(segs[5]) THEN malformed
        ELSE IF PrefixOverlap(segs[5]) THEN "MalformedTaskSegment"
        ELSE IF ~ParseU32(NumberText(segs[5])).ok THEN "InvalidTaskNumber"
        ELSE IF ~Strptime(DateText(segs[5])).ok THEN "InvalidDate"
        ELSE "None"

\* C5 as claimed: a failing call returns the kind of the first violated
\* check, a task segment lacking task- or -on- giving MalformedTaskSegment,
\* a kind of its own.
C5_FirstViolation_Claimed ==
    pc = "classified" =>
        /\ info.ok <=> FirstViolation(url, "MalformedTaskSegment") = "None"
        /\ ~info.ok => KindOf(info.err) = FirstViolation(url, "MalformedTaskSegment")

\* C5 amended: a failing call returns the kind of the first violated check
\* and no UrlInfo, where a task segment lacking task- or -on- gives the same
\* kind as a segment 2 other than "results" (UnsupportedUrlShape), and a task
\* segment starting task-on- gives MalformedTaskSegment.
C5_FirstViolation ==
    pc = "classified" =>
        /\ info.ok <=> FirstViolation(url, "UnsupportedUrlShape") = "None"
        /\ ~info.ok => KindOf(info.err) = FirstViolation(url, "UnsupportedUrlShape")

\* a task segment with a non-numeric number and an unparseable date failed
\* with InvalidTaskNumber
C5_Witness ==
    /\ pc = "classified" /\ Accepted(url) /\ Len(url.segs) >= 5
    /\ url.segs[3] = <<"r","e","s","u","l","t","s">>
    /\ ~LacksTaskParts(url.segs[5]) /\ ~PrefixOverlap(url.segs[5])
    /\ ~ParseU32(NumberText(url.segs[5])).ok
    /\ ~Strptime(DateText(url.segs[5])).ok
    /\ ~info.ok /\ KindOf(info.err) = "InvalidTaskNumber"

\* C6 as claimed: every successful result has a non-empty competition, a
\* non-empty class (Class and Daily) and a task_number >= 1 (Daily).
C6_DataModel_Claimed ==
    (pc = "classified" /\ info.ok) =>
        /\ info.competition # <<>>
        /\ info.kind \in {"Class", "Daily"} => info.class # <<>>
        /\ info.kind = "Daily" => info.task_number >= 1

\* the result of classifying u with another scheme, host and locale
Variant(u, s, h, l) ==
    extract_url_info([u EXCEPT !.scheme = s, !.host = h, !.segs[1] = l])

\* C7: the result does not depend on the scheme (http or https), the host
\* (bare or www) or the value of the locale segment; a URL generated from a
\* Daily result has scheme https, the www host and the locale en_gb; and
\* generating again from the generated URL gives the same string.
C7_Normalization ==
    /\ (pc = "classified" /\ Accepted(url)) =>
           \A s \in {<<"h","t","t","p","s">>, <<"h","t","t","p">>},
              h \in {<<"w","w","w",".","s","o","a","r","i","n","g","s","p","o","t",".","c","o","m">>, <<"s","o","a","r","i","n","g","s","p","o","t",".","c","o","m">>},
              l \in {<<"e","n","_","g","b">>, <<"d","e">>, <<"f","r","_","f","r">>, <<>>} :
               Variant(url, s, h, l) = info
    /\ (Len(gen) >= 1 /\ pc \in {"url", "classified"}) =>
           /\ url.scheme = <<"h","t","t","p","s">>
           /\ url.host = <<"w","w","w",".","s","o","a","r","i","n","g","s","p","o","t",".","c","o","m">>
           /\ url.segs[1] = <<"e","n","_","g","b">>
    /\ Len(gen) >= 2 => gen[2] = gen[1]
    /\ Len(gen) >= 1 => pc # "unparsed"

\* an http, bare-host, de-locale URL was classified Daily and generated twice
C7_Witness ==
    /\ mode = "text" /\ Len(gen) = 2 /\ pc = "classified"
    /\ StartsWith(orig, <<"h","t","t","p",":","/","/","s","o","a","r","i","n","g","s","p","o","t",".","c","o","m","/","d","e","/">>)
    /\ gen[1] # orig /\ gen[2] = gen[1]

\* ------------------------------------------------------------------------
\* src/parser.rs
\*
\* A parsed page (scraper::Html) is the sequence of its elements in document
\* order, each with its tag, its href and data-content attributes (as the
\* HTML parser returns them) and its text content.

Some(v) == [some |-> TRUE, val |-> v]

None == [some |-> FALSE, val |-> <<>>]

Element(tag, href, data_content, txt) ==
    [tag |-> tag, href |-> href, data_content |-> data_content, text |-> txt]

\* the platform origin both extractors prefix
Origin == <<"h","t","t","p","s",":","/","/","w","w","w",".","s","o","a","r","i","n","g","s","p","o","t",".","c","o","m">>

ResultsMarker == <<"/","r","e","s","u","l","t","s","/">>
DailyMarker == <<"/","d","a","i","l","y">>
FlightMarker == <<"d","o","w","n","l","o","a","d","-","c","o","n","t","e","s","t","-","f","l","i","g","h","t">>
DirectMarker == <<"d","l","=","1">>

\* Selector a[href*="/results/"][href*="/daily"]
DailyLinkSelector(e) ==
    /\ e.tag = "a"
    /\ e.href.some
    /\ Contains(e.href.val, ResultsMarker)
    /\ Contains(e.href.val, DailyMarker)

\* the body of parse_daily_results's loop: the records one selected element
\* adds
ScanLink(e) ==
    LET u == UrlParse(Origin \o e.href.val)
        i == IF u.ok THEN extract_url_info(u) ELSE NoInfo
    IN  IF u.ok /\ i.ok /\ i.kind = "Daily" THEN <<DailyOf(i)>> ELSE <<>>

RECURSIVE ScanLinks(_)
\* parse_daily_results's loop over the selected elements
ScanLinks(doc) ==
    IF doc = <<>> THEN <<>>
    ELSE (IF DailyLinkSelector(Head(doc)) THEN ScanLink(Head(doc)) ELSE <<>>)
             \o ScanLinks(Tail(doc))

RECURSIVE Dedup(_)
\* s without the later copies of an element
Dedup(s) ==
    IF s = <<>> THEN <<>>
    ELSE LET front == Dedup(SubSeq(s, 1, Len(s) - 1))
         IN  IF \E i \in 1..Len(front) : front[i] = s[Len(s)]
             THEN front ELSE Append(front, s[Len(s)])

\* mutant of parse_daily_results: a record is kept once
parse_daily_results_Dedup(doc) == Dedup(ScanLinks(doc))

\* parse_daily_results: always Ok
parse_daily_results(doc) == ScanLinks(doc)

Entities ==
    {<<<<"&","l","t",";">>, "<">>, <<<<"&","g","t",";">>, ">">>, <<<<"&","q","u","o","t",";">>, "\"">>, <<<<"&","a","m","p",";">>, "&">>}

\* the positions of s at which an entity starts
EntityStarts(s) == {i \in 1..Len(s) : \E en \in Entities : StartsWith(Tail2(s, i - 1), en[1])}

RECURSIVE DecodeEntities(_)
\* html_escape::decode_html_entities, for the four entities of the model's
\* pages: one pass, left to right
DecodeEntities(s) ==
    IF EntityStarts(s) = {} THEN s
    ELSE LET i  == SetMin(EntityStarts(s))
             en == CHOOSE x \in Entities : StartsWith(Tail2(s, i - 1), x[1])
         IN  SubSeq(s, 1, i - 1) \o <<en[2]>>
                 \o DecodeEntities(Tail2(s, i - 1 + Len(en[1])))

AnchorOpen == <<"<","a"," ","h","r","e","f","=","\"">>

RECURSIVE FragmentAnchors(_)
\* Html::parse_fragment and the a elements of the fragment, in document
\* order, each by its href value: the start tags <a href="..."> of the text,
\* the attribute value entity-decoded as the HTML parser does
FragmentAnchors(s) ==
    IF ~Contains(s, AnchorOpen) THEN <<>>
    ELSE LET after == Tail2(s, Find(s, AnchorOpen) + Len(AnchorOpen) - 1)
             n     == PrefixLen(after, {"\""})
         IN  IF n = Len(after) THEN <<>>
             ELSE <<DecodeEntities(SubSeq(after, 1, n))>>
                      \o FragmentAnchors(Tail2(after, n + 1))

\* Selector a[href*="download-contest-flight"][href*="dl=1"], on an href
DownloadLinkSelector(href) ==
    Contains(href, FlightMarker) /\ Contains(href, DirectMarker)

\* mutant of extract_download_url: the last matching link, not the first
extract_download_url_Last(data_content) ==
    LET links == SelectSeq(FragmentAnchors(DecodeEntities(data_content)),
                           DownloadLinkSelector)
    IN  IF links = <<>> THEN None ELSE Some(Origin \o links[Len(links)])

\* extract_download_url
extract_download_url(data_content) ==
    LET links == SelectSeq(FragmentAnchors(DecodeEntities(data_content)),
                           DownloadLinkSelector)
    IN  IF links = <<>> THEN None ELSE Some(Origin \o Head(links))

Whitespace == {" ", "\t", "\n"}

RECURSIVE TrimStart(_)
TrimStart(s) ==
    IF s # <<>> /\ Head(s) \in Whitespace THEN TrimStart(Tail(s)) ELSE s

RECURSIVE TrimEnd(_)
TrimEnd(s) ==
    IF s # <<>> /\ s[Len(s)] \in Whitespace
    THEN TrimEnd(SubSeq(s, 1, Len(s) - 1)) ELSE s

\* str::trim
Trim(s) == TrimEnd(TrimStart(s))

\* Selector [data-content*="download-contest-flight"]
FlightSelector(e) ==
    e.data_content.some /\ Contains(e.data_content.val, FlightMarker)

\* IgcFile
IgcFile(callsign, download_url) ==
    [callsign |-> callsign, download_url |-> download_url]

\* the body of parse_igc_files's loop: the records one selected element adds
FlightRow(e) ==
    LET download_url == extract_download_url(e.data_content.val)
        callsign     == Trim(e.text)
    IN  IF download_url.some /\ callsign # <<>>
        THEN <<IgcFile(callsign, download_url.val)>>
        ELSE <<>>

RECURSIVE FlightRows(_)
\* parse_igc_files's loop over the selected elements
FlightRows(doc) ==
    IF doc = <<>> THEN <<>>
    ELSE (IF FlightSelector(Head(doc)) THEN FlightRow(Head(doc)) ELSE <<>>)
             \o FlightRows(Tail(doc))

\* parse_igc_files: always Ok
parse_igc_files(doc) == FlightRows(doc)

\* ------------------------------------------------------------------------
\* src/main.rs: the crawl-target selection

\* DailyUrlInfo::is_practice_day: the records the predicate holds of are
\* given (the rule itself is left to the implementer)
is_practice_day(r) == r \in practice

Ok(list) == [ok |-> TRUE, list |-> list, err |-> ""]

Failure(msg) == [ok |-> FALSE, list |-> <<>>, err |-> msg]

IndexUrlTail == <<"/","r","e","s","u","l","t","s">>

\* the URL get_daily_urls_for_competition requests
IndexUrl(competition) == DailyUrlHead \o competition \o IndexUrlTail

\* the practice-day filter of get_daily_urls_for_competition
KeepDay(flag, r) == flag \/ ~is_practice_day(r)

\* mutant of get_daily_urls_for_competition: the flag read the other way
get_daily_urls_for_competition_Inverted(resp, doc, flag) ==
    IF resp = "error" THEN Failure("error sending request")
    ELSE IF resp = "status" THEN Failure("HTTP error")
    ELSE LET Keep(r) == KeepDay(~flag, r)
         IN  Ok(SelectSeq(parse_daily_results(doc), Keep))

\* get_daily_urls_for_competition, given how the server answers: the request
\* fails, the status is not a success, or the page doc comes back
get_daily_urls_for_competition(resp, doc, flag) ==
    IF resp = "error" THEN Failure("error sending request")
    ELSE IF resp = "status" THEN Failure("HTTP error")
    ELSE LET Keep(r) == KeepDay(flag, r)
         IN  Ok(SelectSeq(parse_daily_results(doc), Keep))

\* daily_urls_for_url: the Result it returns
daily_urls_for_url(u, resp, doc, flag) ==
    LET url_info == extract_url_info(u)
        found    == get_daily_urls_for_competition(resp, doc, flag)
        InClass(r) == r.class = url_info.class
    IN  IF ~url_info.ok THEN Failure(url_info.err)
        ELSE IF url_info.kind = "Daily" THEN Ok(<<DailyOf(url_info)>>)
        ELSE IF url_info.kind = "Class"
        THEN (IF found.ok THEN Ok(SelectSeq(found.list, InClass)) ELSE found)
        ELSE found

\* the requests daily_urls_for_url sends
IndexRequests(u) ==
    LET url_info == extract_url_info(u)
    IN  IF url_info.ok /\ url_info.kind # "Daily"
        THEN <<IndexUrl(url_info.competition)>>
        ELSE <<>>

\* ------------------------------------------------------------------------
\* Inputs of the extractor runs

\* Longest page, in elements.
MaxElements == 3

RECURSIVE SeqsOfLen(_, _)
SeqsOfLen(S, n) ==
    IF n = 0 THEN {<<>>}
    ELSE {Append(p, e) : p \in SeqsOfLen(S, n - 1), e \in S}

\* the pages of at most MaxElements elements of S
PagesOver(S) == UNION {SeqsOfLen(S, n) : n \in 0..MaxElements}

Link(href) == Element("a", Some(href), None, <<>>)

ClubDay1 == <<"/","e","n","_","g","b","/","t","e","s","t","/","r","e","s","u","l","t","s","/","c","l","u","b","/","t","a","s","k","-","1","-","o","n","-","2","0","2","5","-","0","6","-","1","9","/","d","a","i","l","y">>
StdDay2 == <<"/","e","n","_","g","b","/","t","e","s","t","/","r","e","s","u","l","t","s","/","s","t","d","/","t","a","s","k","-","2","-","o","n","-","2","0","2","5","-","0","6","-","2","0","/","d","a","i","l","y">>
ClubDay3 == <<"/","e","n","_","g","b","/","t","e","s","t","/","r","e","s","u","l","t","s","/","c","l","u","b","/","t","a","s","k","-","3","-","o","n","-","2","0","2","5","-","0","6","-","2","1","/","d","a","i","l","y">>
BadDay == <<"/","e","n","_","g","b","/","t","e","s","t","/","r","e","s","u","l","t","s","/","c","l","u","b","/","t","a","s","k","-","x","-","o","n","-","2","0","2","5","-","0","6","-","1","9","/","d","a","i","l","y">>

\* the elements of an index page: Daily links, links whose classification
\* fails, a link that classifies as Class, one that classifies as
\* Competition, one whose URL does not parse, a Daily link whose /daily is
\* in the query only, a link outside the selector, and elements that are no
\* link with an href
IndexElements ==
    {Link(ClubDay1), Link(StdDay2), Link(BadDay),
     Link(<<"/","e","n","_","g","b","/","t","e","s","t","/","r","e","s","u","l","t","s","/","d","a","i","l","y">>),
     Link(<<"/","e","n","_","g","b","/","t","e","s","t","?","f","r","o","m","=","/","r","e","s","u","l","t","s","/","/","d","a","i","l","y">>),
     Link(<<":","x","/","r","e","s","u","l","t","s","/","c","l","u","b","/","d","a","i","l","y">>),
     Link(<<"/","e","n","_","g","b","/","t","e","s","t","/","r","e","s","u","l","t","s","/","c","l","u","b","/","t","a","s","k","-","4","-","o","n","-","2","0","2","5","-","0","6","-","2","2","?","v","=","/","d","a","i","l","y">>),
     Link(<<"/","e","n","_","g","b","/","t","e","s","t","/","r","e","s","u","l","t","s","/","c","l","u","b">>),
     Element("div", Some(ClubDay1), None, <<>>),
     Element("a", None, None, <<>>)}

\* the elements of the index page of the selection runs
SelectElements == {Link(ClubDay1), Link(StdDay2), Link(ClubDay3), Link(BadDay)}

\* the records is_practice_day may hold of
PracticeCandidates ==
    {r \in {[competition |-> <<"t","e","s","t">>, class |-> k,
             date |-> [year |-> 2025, month |-> 6, day |-> dd],
             task_number |-> n] :
               k \in {<<"c","l","u","b">>, <<"s","t","d">>}, dd \in 19..21, n \in 1..3} :
        to_daily_url(r) \in {Origin \o ClubDay1, Origin \o StdDay2}}

\* the URLs given on the command line
CliUrls ==
    {UrlParse(Origin \o ClubDay3),
     UrlParse(Origin \o <<"/","e","n","_","g","b","/","t","e","s","t","/","r","e","s","u","l","t","s","/","c","l","u","b">>),
     UrlParse(Origin \o <<"/","e","n","_","g","b","/","t","e","s","t","/","r","e","s","u","l","t","s","/","s","t","d">>),
     UrlParse(Origin \o <<"/","e","n","_","g","b","/","t","e","s","t","/","r","e","s","u","l","t","s">>),
     UrlParse(Origin \o <<"/","e","n","_","g","b","/","t","e","s","t">>),
     UrlParse(<<"h","t","t","p","s",":","/","/","w","w","w",".","g","o","o","g","l","e",".","c","o","m","/","e","n","_","g","b","/","t","e","s","t">>)}

Flight(data_content, txt) == Element("td", None, Some(data_content), txt)

\* the elements of a daily page: rows with a plain and with an
\* entity-encoded fragment, a row with several links, a row with blank text,
\* rows whose fragment holds no qualifying link, and elements outside the
\* selector
FlightElements ==
    {Flight(<<"<","a"," ","h","r","e","f","=","\"","/","d","o","w","n","l","o","a","d","-","c","o","n","t","e","s","t","-","f","l","i","g","h","t","/","1","?","d","l","=","1","\"",">">>, <<" ","A","B","\n">>),
     Flight(<<"&","l","t",";","a"," ","h","r","e","f","=","&","q","u","o","t",";","/","d","o","w","n","l","o","a","d","-","c","o","n","t","e","s","t","-","f","l","i","g","h","t","/","2","?","d","l","=","1","&","q","u","o","t",";","&","g","t",";">>, <<"C","D">>),
     Flight(<<"<","a"," ","h","r","e","f","=","\"","/","d","o","w","n","l","o","a","d","-","c","o","n","t","e","s","t","-","f","l","i","g","h","t","/","3","\"",">","<","a"," ","h","r","e","f","=","\"","/","d","o","w","n","l","o","a","d","-","c","o","n","t","e","s","t","-","f","l","i","g","h","t","/","4","?","d","l","=","1","\"",">","<","a"," ","h","r","e","f","=","\"","/","d","o","w","n","l","o","a","d","-","c","o","n","t","e","s","t","-","f","l","i","g","h","t","/","5","?","d","l","=","1","\"",">">>, <<"E"," ","F">>),
     Flight(<<"<","a"," ","h","r","e","f","=","\"","/","d","o","w","n","l","o","a","d","-","c","o","n","t","e","s","t","-","f","l","i","g","h","t","/","6","?","d","l","=","1","\"",">">>, <<" ","\t">>),
     Flight(<<"<","a"," ","h","r","e","f","=","\"","/","d","o","w","n","l","o","a","d","-","c","o","n","t","e","s","t","-","f","l","i","g","h","t","/","7","\"",">">>, <<"G","H">>),
     Flight(<<"d","o","w","n","l","o","a","d","-","c","o","n","t","e","s","t","-","f","l","i","g","h","t","?","d","l","=","1">>, <<"I","J">>),
     Flight(<<"<","a"," ","h","r","e","f","=","\"","/","f","l","i","g","h","t","/","8","?","d","l","=","1","\"",">">>, <<"K","L">>),
     Element("td", None, None, <<"M","N">>)}

UrlIdle ==
    /\ mode = "none"
    /\ d = NoRecord
    /\ orig = <<>>
    /\ text = <<>>
    /\ info = NoInfo
    /\ first = NoInfo
    /\ gen = <<>>

\* ------------------------------------------------------------------------
\* The extractor runs: a page is given to parse_daily_results or to
\* parse_igc_files

InitIndex ==
    /\ RunIdle
    /\ pc = "index"
    /\ UrlIdle
    /\ url = NoUrl
    /\ html \in PagesOver(IndexElements)
    /\ daily_results = <<>>
    /\ igc_files = <<>>
    /\ include_practice = FALSE
    /\ practice = {}
    /\ response = "none"
    /\ daily_urls = NoResult
    /\ requests = <<>>

\* parse_daily_results
ParseDailyResults ==
    /\ pc = "index"
    /\ daily_results' = parse_daily_results(html)
    /\ pc' = "scanned"
    /\ UNCHANGED <<urlVars, html, igc_files, include_practice, practice,
                   response, daily_urls, requests>>
    /\ UNCHANGED runVars

SpecIndex == InitIndex /\ [][ParseDailyResults]_vars

InitFlights ==
    /\ RunIdle
    /\ pc = "day"
    /\ UrlIdle
    /\ url = NoUrl
    /\ html \in PagesOver(FlightElements)
    /\ daily_results = <<>>
    /\ igc_files = <<>>
    /\ include_practice = FALSE
    /\ practice = {}
    /\ response = "none"
    /\ daily_urls = NoResult
    /\ requests = <<>>

\* parse_igc_files
ParseIgcFiles ==
    /\ pc = "day"
    /\ igc_files' = parse_igc_files(html)
    /\ pc' = "listed"
    /\ UNCHANGED <<urlVars, html, daily_results, include_practice, practice,
                   response, daily_urls, requests>>
    /\ UNCHANGED runVars

SpecFlights == InitFlights /\ [][ParseIgcFiles]_vars

\* ------------------------------------------------------------------------
\* The selection runs: daily_urls_for_url on the URL of the command line,
\* against a server that answers the index-page request with an error, a
\* failure status or a page

InitSelect ==
    /\ RunIdle
    /\ pc = "select"
    /\ UrlIdle
    /\ url \in CliUrls
    /\ html \in PagesOver(SelectElements)
    /\ daily_results = <<>>
    /\ igc_files = <<>>
    /\ include_practice \in BOOLEAN
    /\ practice \in SUBSET PracticeCandidates
    /\ response \in {"ok", "status", "error"}
    /\ daily_urls = NoResult
    /\ requests = <<>>

\* daily_urls_for_url
DailyUrlsForUrl ==
    /\ pc = "select"
    /\ daily_urls' = daily_urls_for_url(url, response, html, include_practice)
    /\ requests' = requests \o IndexRequests(url)
    /\ pc' = "selected"
    /\ UNCHANGED <<urlVars, html, daily_results, igc_files, include_practice,
                   practice, response>>
    /\ UNCHANGED runVars

SpecSelect == InitSelect /\ [][DailyUrlsForUrl]_vars

\* ------------------------------------------------------------------------
\* Properties of the extractors and of the selection

\* the number of positions up to k that are in idx
Rank(idx, k) == Cardinality({j \in idx : j <= k})

\* C8: parse_daily_results returns, in document order and without removing
\* duplicates, one record per a element whose href contains "/results/" and
\* "/daily" and whose origin-prefixed URL parses and classifies as Daily;
\* every other element adds nothing and fails nothing.
C8_IndexScan ==
    pc = "scanned" =>
        LET Full(e) == UrlParse(<<"h","t","t","p","s",":","/","/","w","w","w",".","s","o","a","r","i","n","g","s","p","o","t",".","c","o","m">> \o e.href.val)
            Qualifies(e) ==
                /\ e.tag = "a" /\ e.href.some
                /\ Contains(e.href.val, <<"/","r","e","s","u","l","t","s","/">>)
                /\ Contains(e.href.val, <<"/","d","a","i","l","y">>)
                /\ Full(e).ok
                /\ extract_url_info(Full(e)).ok
                /\ extract_url_info(Full(e)).kind = "Daily"
            idx == {k \in 1..Len(html) : Qualifies(html[k])}
        IN  /\ Len(daily_results) = Cardinality(idx)
            /\ \A k \in idx :
                   daily_results[Rank(idx, k)] = DailyOf(extract_url_info(Full(html[k])))

\* a page that links one daily result twice around a malformed link gave two
\* records
C8_Witness ==
    /\ pc = "scanned"
    /\ html = <<Link(ClubDay1), Link(BadDay), Link(ClubDay1)>>
    /\ Len(daily_results) = 2
    /\ daily_results[1] = daily_results[2]

\* C9: parse_igc_files returns, in document order, one record per element
\* whose data-content contains "download-contest-flight", whose trimmed text
\* is not empty and whose decoded fragment holds an anchor with an href
\* containing "download-contest-flight" and "dl=1"; the callsign is the
\* trimmed text and the download_url the origin followed by the href of the
\* first such anchor; every other element adds nothing and fails nothing.
C9_FlightList ==
    pc = "listed" =>
        LET Anchors(e) == FragmentAnchors(DecodeEntities(e.data_content.val))
            Good(e) ==
                {i \in 1..Len(Anchors(e)) :
                    /\ Contains(Anchors(e)[i], <<"d","o","w","n","l","o","a","d","-","c","o","n","t","e","s","t","-","f","l","i","g","h","t">>)
                    /\ Contains(Anchors(e)[i], <<"d","l","=","1">>)}
            Qualifies(e) ==
                /\ e.data_content.some
                /\ Contains(e.data_content.val, <<"d","o","w","n","l","o","a","d","-","c","o","n","t","e","s","t","-","f","l","i","g","h","t">>)
                /\ Trim(e.text) # <<>>
                /\ Good(e) # {}
            idx == {k \in 1..Len(html) : Qualifies(html[k])}
        IN  /\ Len(igc_files) = Cardinality(idx)
            /\ \A k \in idx :
                   igc_files[Rank(idx, k)] =
                       [callsign |-> Trim(html[k].text),
                        download_url |->
                            <<"h","t","t","p","s",":","/","/","w","w","w",".","s","o","a","r","i","n","g","s","p","o","t",".","c","o","m">>
                                \o Anchors(html[k])[SetMin(Good(html[k]))]]

\* a page with a blank-text row, a row with several links and an encoded row
\* gave two records, the first with the first qualifying link of its row
C9_Witness ==
    /\ pc = "listed"
    /\ Len(html) = 3
    /\ Trim(html[1].text) = <<>> /\ FlightSelector(html[1])
    /\ html[2].text = <<"E"," ","F">>
    /\ html[3].text = <<"C","D">>
    /\ Len(igc_files) = 2
    /\ igc_files[1] = [callsign |-> <<"E"," ","F">>,
                       download_url |-> <<"h","t","t","p","s",":","/","/","w","w","w",".","s","o","a","r","i","n","g","s","p","o","t",".","c","o","m","/","d","o","w","n","l","o","a","d","-","c","o","n","t","e","s","t","-","f","l","i","g","h","t","/","4","?","d","l","=","1">>]
    /\ igc_files[2] = [callsign |-> <<"C","D">>,
                       download_url |-> <<"h","t","t","p","s",":","/","/","w","w","w",".","s","o","a","r","i","n","g","s","p","o","t",".","c","o","m","/","d","o","w","n","l","o","a","d","-","c","o","n","t","e","s","t","-","f","l","i","g","h","t","/","2","?","d","l","=","1">>]

\* C10: daily_urls_for_url returns exactly [d] and requests nothing when the
\* URL classifies as Daily d; for a Competition URL whose index page is
\* served it returns the page's Daily records in page order, all of them with
\* include_practice and without exactly the practice days otherwise; for a
\* Class URL it returns that list restricted to the records of the URL's
\* class, order preserved.
C10_Selection ==
    pc = "selected" =>
        LET i   == extract_url_info(url)
            all == parse_daily_results(html)
            Kept(r) == include_practice \/ r \notin practice
            comp == {k \in 1..Len(all) : Kept(all[k])}
            cls  == {k \in 1..Len(all) : Kept(all[k]) /\ all[k].class = i.class}
        IN  /\ (i.ok /\ i.kind = "Daily") =>
                   /\ daily_urls = Ok(<<DailyOf(i)>>)
                   /\ requests = <<>>
            /\ (i.ok /\ i.kind = "Competition" /\ response = "ok") =>
                   /\ daily_urls.ok
                   /\ Len(daily_urls.list) = Cardinality(comp)
                   /\ \A k \in comp : daily_urls.list[Rank(comp, k)] = all[k]
            /\ (i.ok /\ i.kind = "Class" /\ response = "ok") =>
                   /\ daily_urls.ok
                   /\ Len(daily_urls.list) = Cardinality(cls)
                   /\ \A k \in cls : daily_urls.list[Rank(cls, k)] = all[k]

\* a Class URL without --include-practice on a page with a practice day of
\* the class, a day of another class and a scored day of the class: the
\* scored day alone is returned
C10_Witness ==
    /\ pc = "selected"
    /\ extract_url_info(url) = Class(<<"t","e","s","t">>, <<"c","l","u","b">>)
    /\ ~include_practice /\ response = "ok"
    /\ html = <<Link(ClubDay1), Link(StdDay2), Link(ClubDay3)>>
    /\ Cardinality(practice) = 1
    /\ Len(daily_urls.list) = 1
    /\ to_daily_url(daily_urls.list[1]) = Origin \o ClubDay3

\* ------------------------------------------------------------------------
\* src/date_utils.rs

Letters ==
    <<"A","B","C","D","E","F","G","H","I","J","K","L","M","N","O","P","Q","R",
      "S","T","U","V">>

\* i16 % 10: the remainder has the sign of the dividend
RemTen(y) == IF y >= 0 THEN y % 10 ELSE -((-y) % 10)

\* `as u8`: the value modulo 2^8
AsU8(n) == n % 256

\* unreachable!(): the call panics
Unreachable == <<"p","a","n","i","c">>

\* the match on the day
DayCharacter(dd) ==
    IF dd \in 1..9 THEN <<Digits[dd + 1]>>
    ELSE IF dd \in 10..31 THEN <<Letters[dd - 9]>>
    ELSE Unreachable

\* date_to_igc_filename_prefix
date_to_igc_filename_prefix(date) ==
    FormatNat(AsU8(RemTen(date.year))) \o FormatNat(AsU8(date.month))
        \o DayCharacter(AsU8(date.day))

\* the dates given to date_to_igc_filename_prefix
\* (years from 0 on: the sign handling of RemTen and AsU8 is not exercised)
PrefixYears == {0, 2019, 2020, 2021, 2023, 2024, 2025}

PrefixDates ==
    {dt \in [year : PrefixYears, month : 1..12, day : 1..31] :
        /\ dt.day <= DaysInMonth(dt.year, dt.month)}

InitPrefix ==
    /\ pc = "date"
    /\ UrlIdle
    /\ url = NoUrl
    /\ PageIdle
    /\ igc_date \in PrefixDates
    /\ igc_prefix = <<>>
    /\ day = 0
    /\ flight = 0
    /\ collected = <<>>
    /\ fs = {}
    /\ dirs = {}
    /\ trace = <<>>
    /\ progress = 0
    /\ outcome = "running"

\* date_to_igc_filename_prefix
DateToPrefix ==
    /\ pc = "date"
    /\ igc_prefix' = date_to_igc_filename_prefix(igc_date)
    /\ pc' = "prefixed"
    /\ UNCHANGED <<urlVars, pageVars, igc_date, day, flight, collected, fs,
                   dirs, trace, progress, outcome>>

SpecPrefix == InitPrefix /\ [][DateToPrefix]_vars

\* the day character the claim names: 1-9 for days 1-9, A-V for days 10-31
ClaimedDayCharacter(dd) ==
    CASE dd = 1 -> "1" [] dd = 2 -> "2" [] dd = 3 -> "3" [] dd = 4 -> "4"
      [] dd = 5 -> "5" [] dd = 6 -> "6" [] dd = 7 -> "7" [] dd = 8 -> "8"
      [] dd = 9 -> "9" [] dd = 10 -> "A" [] dd = 11 -> "B" [] dd = 12 -> "C"
      [] dd = 13 -> "D" [] dd = 14 -> "E" [] dd = 15 -> "F" [] dd = 16 -> "G"
      [] dd = 17 -> "H" [] dd = 18 -> "I" [] dd = 19 -> "J" [] dd = 20 -> "K"
      [] dd = 21 -> "L" [] dd = 22 -> "M" [] dd = 23 -> "N" [] dd = 24 -> "O"
      [] dd = 25 -> "P" [] dd = 26 -> "Q" [] dd = 27 -> "R" [] dd = 28 -> "S"
      [] dd = 29 -> "T" [] dd = 30 -> "U" [] dd = 31 -> "V"

\* C11 as claimed: for every valid date the prefix has exactly three
\* characters, the day character last (1-9 for days 1-9, A-V for days 10-31).
C11_Prefix_Claimed ==
    pc = "prefixed" =>
        /\ Len(igc_prefix) = 3
        /\ igc_prefix[Len(igc_prefix)] = ClaimedDayCharacter(igc_date.day)

\* the part of C11 that holds of the code: the last character is the claimed
\* day character, and for a year >= 0 and a month 1..9 the prefix is the
\* three characters {last digit of year}{month}{day character}
C11_Prefix_Holds ==
    pc = "prefixed" =>
        /\ igc_prefix[Len(igc_prefix)] = ClaimedDayCharacter(igc_date.day)
        /\ (igc_date.year >= 0 /\ igc_date.month <= 9) =>
               igc_prefix = <<Digits[(igc_date.year % 10) + 1],
                              Digits[igc_date.month + 1],
                              ClaimedDayCharacter(igc_date.day)>>

\* ------------------------------------------------------------------------
\* src/main.rs: main and download_igc_file
\*
\* A path is the sequence of its components. A file is <<path, content>>,
\* the content "old" for a file that was there before the run and "new" for
\* one download_igc_file moved into place.

\* Longest list of days of a run.
MaxDays == 2

\* args.output.unwrap_or_else(|| PathBuf::from("."))
OutputDir == << <<".">> >>

\* {output}/{competition}/{class}/{date}
TargetDir(daily) ==
    OutputDir \o <<daily.competition, daily.class, Strftime(daily.date)>>

IgcSuffix == <<".","i","g","c">>

\* format!("{}_{}.igc", date_prefix, igc_file.callsign)
Filename(daily, igc_file) ==
    date_to_igc_filename_prefix(daily.date) \o <<"_">> \o igc_file.callsign
        \o IgcSuffix

\* target_dir.join(&filename)
FilePath(daily, igc_file) == Append(TargetDir(daily), Filename(daily, igc_file))

\* Path::exists
Exists(files, path) == \E f \in files : f[1] = path

\* mutant of download_igc_file: the content is written to the final path
\* itself, so a failed write leaves a file there
download_igc_file_InPlace(answer, files, final_path) ==
    IF answer \in {"error", "status"} THEN [ok |-> FALSE, fs |-> files]
    ELSE [ok |-> answer = "ok",
          fs |-> {f \in files : f[1] # final_path} \cup {<<final_path, "new">>}]

\* download_igc_file, given how the request and the file operations go: the
\* request fails ("error"), the status is not a success ("status"), reading
\* the body or creating, writing or renaming the temporary file fails
\* ("io"), or all succeed ("ok"). The temporary file is outside the output
\* directory; only the rename touches final_path.
download_igc_file(answer, files, final_path) ==
    IF answer = "ok"
    THEN [ok |-> TRUE,
          fs |-> {f \in files : f[1] # final_path} \cup {<<final_path, "new">>}]
    ELSE [ok |-> FALSE, fs |-> files]

Event(ev, dd, ff) == [ev |-> ev, day |-> dd, flight |-> ff]

\* the days of the run
Days2 == daily_urls.list

\* ------------------------------------------------------------------------
\* Inputs of the runs of main

\* the index pages of the runs: at most MaxDays links
RunIndexPages ==
    UNION {SeqsOfLen({Link(ClubDay1), Link(StdDay2)}, n) : n \in 0..MaxDays}

RunCliUrls ==
    {UrlParse(Origin \o ClubDay3),
     UrlParse(Origin \o <<"/","e","n","_","g","b","/","t","e","s","t">>),
     UrlParse(<<"h","t","t","p","s",":","/","/","w","w","w",".","g","o","o","g","l","e",".","c","o","m","/","e","n","_","g","b","/","t","e","s","t">>)}

FlightAB == Flight(<<"<","a"," ","h","r","e","f","=","\"","/","d","o","w","n","l","o","a","d","-","c","o","n","t","e","s","t","-","f","l","i","g","h","t","/","1","?","d","l","=","1","\"",">">>, <<" ","A","B","\n">>)
FlightCD == Flight(<<"&","l","t",";","a"," ","h","r","e","f","=","&","q","u","o","t",";","/","d","o","w","n","l","o","a","d","-","c","o","n","t","e","s","t","-","f","l","i","g","h","t","/","2","?","d","l","=","1","&","q","u","o","t",";","&","g","t",";">>, <<"C","D">>)

\* the daily pages the server may return
DayPages == {<<>>, <<FlightAB>>, <<FlightAB, FlightCD>>}

\* the files that may be in the output directory before the run
OldFiles ==
    {<<OutputDir \o <<<<"t","e","s","t">>, <<"c","l","u","b">>, <<"2","0","2","5","-","0","6","-","1","9">>, <<"5","6","J","_","A","B",".","i","g","c">>>>, "old">>}

\* ------------------------------------------------------------------------
\* The runs of main

InitRun ==
    /\ pc = "select"
    /\ UrlIdle
    /\ url \in RunCliUrls
    /\ html \in RunIndexPages
    /\ daily_results = <<>>
    /\ igc_files = <<>>
    /\ include_practice = TRUE
    /\ practice = {}
    /\ response \in {"ok", "status"}
    /\ daily_urls = NoResult
    /\ requests = <<>>
    /\ igc_date = [year |-> 0, month |-> 0, day |-> 0]
    /\ igc_prefix = <<>>
    /\ day = 0
    /\ flight = 0
    /\ collected = <<>>
    /\ fs \in SUBSET OldFiles
    /\ dirs = {}
    /\ trace = <<>>
    /\ progress = 0
    /\ outcome = "running"

\* main, line 45: the ? on daily_urls_for_url's Result, and the start of the
\* first loop
StartFetch ==
    /\ pc = "selected"
    /\ IF daily_urls.ok
       THEN /\ pc' = "fetch"
            /\ day' = 1
            /\ outcome' = outcome
       ELSE /\ pc' = "done"
            /\ day' = day
            /\ outcome' = "err"
    /\ UNCHANGED <<urlVars, pageVars, igc_date, igc_prefix, flight, collected,
                   fs, dirs, trace, progress>>

\* main, lines 56-83: one turn of the first loop. The request fails, the
\* status is not a success, or a page comes back and is parsed.
FetchDay ==
    /\ pc = "fetch"
    /\ day <= Len(Days2)
    /\ requests' = Append(requests, to_daily_url(Days2[day]))
    /\ \/ /\ \E ev \in {"page_error", "page_status"} :
                trace' = Append(trace, Event(ev, day, 0))
          /\ pc' = "done"
          /\ outcome' = "err"
          /\ UNCHANGED <<day, collected>>
       \/ /\ \E page \in DayPages :
                collected' = Append(collected,
                                    [daily |-> Days2[day],
                                     files |-> parse_igc_files(page)])
          /\ trace' = Append(trace, Event("page_ok", day, 0))
          /\ day' = day + 1
          /\ UNCHANGED <<pc, outcome>>
    /\ UNCHANGED <<urlVars, html, daily_results, igc_files, include_practice,
                   practice, response, daily_urls, igc_date, igc_prefix,
                   flight, fs, dirs, progress>>

\* main, lines 85-109: the end of the first loop: nothing collected ends
\* the run, else the second loop starts
EndFetch ==
    /\ pc = "fetch"
    /\ day > Len(Days2)
    /\ IF collected = <<>>
       THEN /\ pc' = "done"
            /\ outcome' = "ok"
            /\ day' = day
       ELSE /\ pc' = "mkdir"
            /\ outcome' = outcome
            /\ day' = 1
    /\ progress' = 0
    /\ UNCHANGED <<urlVars, pageVars, igc_date, igc_prefix, flight, collected,
                   fs, dirs, trace>>

\* main, lines 111-123: the head of one turn of the second loop:
\* create_dir_all succeeds, or fails and ends the run
CreateDir ==
    /\ pc = "mkdir"
    /\ day <= Len(collected)
    /\ \/ /\ dirs' = dirs \cup {TargetDir(collected[day].daily)}
          /\ trace' = Append(trace, Event("mkdir", day, 0))
          /\ pc' = "download"
          /\ flight' = 1
          /\ outcome' = outcome
       \/ /\ trace' = Append(trace, Event("mkdir_failed", day, 0))
          /\ pc' = "done"
          /\ outcome' = "err"
          /\ UNCHANGED <<dirs, flight>>
    /\ UNCHANGED <<urlVars, pageVars, igc_date, igc_prefix, day, collected,
                   fs, progress>>

\* main, lines 126-150: one turn of the inner loop. An existing file is
\* skipped; else download_igc_file is called and its error only printed.
DownloadFile ==
    /\ pc = "download"
    /\ flight <= Len(collected[day].files)
    /\ LET igc_file  == collected[day].files[flight]
           file_path == FilePath(collected[day].daily, igc_file)
       IN  IF Exists(fs, file_path)
           THEN /\ trace' = Append(trace, Event("skipped", day, flight))
                /\ UNCHANGED <<fs, requests>>
           ELSE \E answer \in {"error", "status", "io", "ok"} :
                   LET res == download_igc_file(answer, fs, file_path)
                   IN  /\ requests' = Append(requests, igc_file.download_url)
                       /\ fs' = res.fs
                       /\ trace' = Append(trace,
                              Event(IF res.ok THEN "downloaded" ELSE "failed",
                                    day, flight))
    /\ progress' = progress + 1
    /\ flight' = flight + 1
    /\ UNCHANGED <<pc, urlVars, html, daily_results, igc_files,
                   include_practice, practice, response, daily_urls, igc_date,
                   igc_prefix, day, collected, dirs, outcome>>

\* the end of the inner loop: the next day
NextDay ==
    /\ pc = "download"
    /\ flight > Len(collected[day].files)
    /\ pc' = "mkdir"
    /\ day' = day + 1
    /\ UNCHANGED <<urlVars, pageVars, igc_date, igc_prefix, flight, collected,
                   fs, dirs, trace, progress, outcome>>

\* main, lines 153-155: the end of the second loop
Finish ==
    /\ pc = "mkdir"
    /\ day > Len(collected)
    /\ pc' = "done"
    /\ outcome' = "ok"
    /\ UNCHANGED <<urlVars, pageVars, igc_date, igc_prefix, day, flight,
                   collected, fs, dirs, trace, progress>>

NextRun ==
    \/ DailyUrlsForUrl
    \/ StartFetch
    \/ FetchDay
    \/ EndFetch
    \/ CreateDir
    \/ DownloadFile
    \/ NextDay
    \/ Finish

SpecRun == InitRun /\ [][NextRun]_vars

\* ------------------------------------------------------------------------
\* C12: failure isolation in the run

\* the (day, flight) pairs of the first n collected days, in discovery order
RECURSIVE PairsUpTo(_, _)
PairsUpTo(coll, n) ==
    IF n = 0 THEN <<>>
    ELSE PairsUpTo(coll, n - 1)
             \o [k \in 1..Len(coll[n].files) |-> <<n, k>>]

AllPairs == PairsUpTo(collected, Len(collected))

IsVisit(e) == e.ev \in {"skipped", "downloaded", "failed"}

\* the pairs visited so far, in the order of the visits
Visits ==
    LET vs == SelectSeq(trace, IsVisit)
    IN  [k \in 1..Len(vs) |-> <<vs[k].day, vs[k].flight>>]

Happened(ev) == \E k \in 1..Len(trace) : trace[k].ev = ev

\* the requests for IGC files
FileRequests == {k \in 1..Len(requests) : Contains(requests[k], FlightMarker)}

\* something of the download phase has happened
DownloadPhase ==
    \/ FileRequests # {}
    \/ dirs # {}
    \/ \E f \in fs : f[2] = "new"
    \/ Happened("mkdir") \/ Happened("mkdir_failed")
    \/ Visits # <<>>
    \/ pc \in {"mkdir", "download"}

\* every day of the run has been fetched with a success status and parsed
AllFetched ==
    /\ daily_urls.ok
    /\ Len(collected) = Len(Days2)
    /\ \A k \in 1..Len(Days2) :
          /\ trace[k] = Event("page_ok", k, 0)
          /\ requests[Len(IndexRequests(url)) + k] = to_daily_url(Days2[k])
          /\ collected[k].daily = Days2[k]

TwoPhase == DownloadPhase => AllFetched

PageFailureEnds ==
    (Happened("page_status") \/ Happened("page_error")) =>
        /\ pc = "done"
        /\ outcome = "err"
        /\ ~DownloadPhase

\* the visits are an initial part of the discovered pairs, and the counter
\* counts them
InOrder ==
    /\ Len(Visits) <= Len(AllPairs)
    /\ \A k \in 1..Len(Visits) : Visits[k] = AllPairs[k]
    /\ progress = Len(Visits)

AllVisited ==
    /\ Visits = AllPairs
    /\ progress = Len(AllPairs)

VisitStep(ev) ==
    /\ pc = "download"
    /\ Len(trace') = Len(trace) + 1
    /\ trace'[Len(trace')] = Event(ev, day, flight)

CurrentPath == FilePath(collected[day].daily, collected[day].files[flight])

\* a pair whose target path exists issues no request and leaves the files as
\* they are
SkipStep ==
    (pc = "download" /\ flight <= Len(collected[day].files)
        /\ Exists(fs, CurrentPath)) =>
            /\ VisitStep("skipped")
            /\ requests' = requests
            /\ fs' = fs

\* a failed download leaves no file at its target path, changes no other
\* file, and the run goes on
FailedStep ==
    VisitStep("failed") =>
        /\ ~Exists(fs', CurrentPath)
        /\ fs' = fs
        /\ pc' = "download"
        /\ outcome' = "running"
        /\ progress' = progress + 1

\* a download is requested only for a missing file, once
DownloadStep ==
    requests' # requests /\ pc = "download" =>
        /\ ~Exists(fs, CurrentPath)
        /\ requests' = Append(requests, collected[day].files[flight].download_url)
        /\ VisitStep("downloaded") \/ VisitStep("failed")

C12_Invariant ==
    /\ TwoPhase
    /\ PageFailureEnds
    /\ InOrder
    /\ (pc = "done" /\ outcome = "ok") => AllVisited
    /\ (pc = "done" /\ DownloadPhase /\ ~Happened("mkdir_failed")) =>
          /\ outcome = "ok"
          /\ AllVisited

====
